---- MODULE Spec2Model ----
(***************************************************************************)
(* TwitchRecorder (src/recorder.py): the poll loop of main(), with the     *)
(* capture processes it starts and stops, the post-processing runs and the *)
(* shutdown sequence.  The state below is the state of main() from the     *)
(* point where the loop is entered (line 529) to the end of the finally    *)
(* block (line 611), together with the capture processes and the           *)
(* post-processing commands that exist outside of it.                      *)
(*                                                                         *)
(* Spec is the poll loop and the shutdown.  SpecStartup is the             *)
(* authentication of lines 441-499 that precedes the loop.  SpecIsLive and *)
(* SpecResolve apply is_live and get_stream_url to every answer of the     *)
(* status endpoint and of streamlink.                                      *)
(* SpecFfmpeg, SpecUsers, SpecSanitize and SpecFilename do the same for    *)
(* get_ffmpeg_path, read_users_from_file, sanitize_filename and the file   *)
(* name formed by start_recording, over bounded sets of paths and texts.   *)
(***************************************************************************)
EXTENDS Integers, Sequences, FiniteSets, TLC

\* ------------------------------------------------------------------ bounds
\* poll cycles explored
MaxCycles == 2

\* capture processes launched in one run
MaxProcs == 3

\* quality variants in one answer of streamlink.streams
MaxVariants == 3

\* ------------------------------------------------------------------ inputs
\* The tracked users, in file order (read_users_from_file: unique, non-empty).
users == <<"alice", "bob">>

UserSet == {users[i] : i \in 1..Len(users)}

\* stream_data[0].get('title') is a string or None.
NoTitle == "None"

\* marks a user with no key in current_live_user_titles
Absent == "absent"

\* the title the status endpoint reports for a live user
TitleOf(u) == IF u = "alice" THEN "Intro" ELSE NoTitle

\* the titles an entry of the result list can carry: a string, or none at all
Titles == {"Intro", "Game", NoTitle}

\* the value of 'data' in a body: at most two entries, each with its title
DataLists == {<< >>} \cup {<<[title |-> t]>> : t \in Titles}
               \cup {<<[title |-> t1], [title |-> t2]>> : t1, t2 \in Titles}

\* the body of a response: not JSON at all, JSON that is not an object, or a JSON
\* object with or without the key 'data'
Bodies ==
  {[kind |-> "not_json", has_data |-> FALSE, data |-> << >>],
   [kind |-> "not_object", has_data |-> FALSE, data |-> << >>],
   [kind |-> "object", has_data |-> FALSE, data |-> << >>]}
  \cup {[kind |-> "object", has_data |-> TRUE, data |-> d] : d \in DataLists}

\* requests.get raised before any status was received
NetworkFailure == "network_failure"

\* what requests.get can return: a status line and a body
Statuses == {"200", "401", "403", "404", "500", NetworkFailure}

\* every answer to one is_live request
AllResponses == [status : Statuses, body : Bodies]

\* What the status endpoint can answer to one is_live request for user u.
Responses(u) ==
  {r \in AllResponses :
     \A i \in 1..Len(r.body.data) : r.body.data[i].title = TitleOf(u)}

\* data.get('data', []) (line 206)
stream_data(body) == IF body.has_data THEN body.data ELSE << >>

\* is_live with the AUTH_FAILURE result left out
is_live_no_auth(resp) ==
  IF resp.status = "200" /\ resp.body.kind = "object" /\ stream_data(resp.body) # << >>
    THEN [live_status |-> "True", title |-> stream_data(resp.body)[1].title]
    ELSE [live_status |-> "None", title |-> NoTitle]

\* is_live: the pair (live_status, stream_title) returned for a response.
is_live(resp) ==
  CASE resp.status = NetworkFailure -> [live_status |-> "None", title |-> NoTitle]
    [] resp.status \in {"401", "403"} ->
         [live_status |-> "AUTH_FAILURE", title |-> NoTitle]
    [] resp.status # "200" -> [live_status |-> "None", title |-> NoTitle]
    [] resp.body.kind # "object" -> [live_status |-> "None", title |-> NoTitle]
    [] stream_data(resp.body) # << >> ->
         [live_status |-> "True", title |-> stream_data(resp.body)[1].title]
    [] OTHER -> [live_status |-> "False", title |-> NoTitle]

\* the value None of the source
None == "None"

\* the quality labels streamlink can offer
Qualities == {"best", "720p", "480p", "audio_only"}

\* line 25
DEFAULT_STREAM_QUALITY == "best"

\* the values of stream_quality in config.ini; "1080p" is never on offer
PreferredQualities == {DEFAULT_STREAM_QUALITY, "720p", "1080p"}

\* streams[q].url
UrlOf(q) ==
  CASE q = "best" -> "https://best"
    [] q = "720p" -> "https://720p"
    [] q = "480p" -> "https://480p"
    [] OTHER -> "https://audio_only"

\* the dicts streamlink.streams can return: distinct labels, in insertion order
VariantLists ==
  UNION {{v \in [1..n -> Qualities] : \A i, j \in 1..n : v[i] = v[j] => i = j} :
           n \in 0..MaxVariants}

\* what streamlink.streams does: it returns a dict, or raises NoPluginError or
\* another exception
StreamResults ==
  {[raised |-> "none", variants |-> v] : v \in VariantLists}
  \cup {[raised |-> e, variants |-> << >>] : e \in {"NoPluginError", "Exception"}}

\* the keys of the dict
Labels(variants) == {variants[i] : i \in 1..Len(variants)}

\* an exception leaves the function
Raised == "raised"

\* get_stream_url with the fallback to 'best' left out
get_stream_url_no_best(lib, quality) ==
  IF lib.raised # "none" \/ lib.variants = << >> THEN None
  ELSE IF quality \in Labels(lib.variants) THEN UrlOf(quality)
  ELSE UrlOf(lib.variants[1])

\* get_stream_url with the handlers of lines 255-260 left out
get_stream_url_uncaught(lib, quality) ==
  IF lib.raised # "none" THEN Raised
  ELSE IF lib.variants = << >> THEN None
  ELSE IF quality \in Labels(lib.variants) THEN UrlOf(quality)
  ELSE IF "best" \in Labels(lib.variants) THEN UrlOf("best")
  ELSE UrlOf(lib.variants[1])

\* get_stream_url (lines 231-260): the URL handed to ffmpeg, or None
get_stream_url(lib, quality) ==
  IF lib.raised # "none" THEN None
  ELSE IF lib.variants = << >> THEN None
  ELSE IF quality \in Labels(lib.variants) THEN UrlOf(quality)
  ELSE IF "best" \in Labels(lib.variants) THEN UrlOf("best")
  ELSE UrlOf(lib.variants[1])

\* line 451
MAX_CREDENTIAL_ATTEMPTS == 3

\* a pair of credentials as a source holds it: none, one Twitch rejects, one it accepts
CredentialStates == {"absent", "invalid", "valid"}

\* what is typed at the prompt of lines 480-481: nothing for one of the two
\* questions, a pair Twitch rejects, a pair it accepts, or end of input
PromptEntries == {"empty", "invalid", "valid", "eof"}

\* how the request of get_access_token (line 175) is answered
TokenAnswers == {"reply", "network_error", "bad_json", "no_token_in_body"}

\* credential_attempts left as it is
SameAttempts(attempts) == attempts

\* credential_attempts += 1 (lines 473, 484, 494)
CountAttempt(attempts) == attempts + 1

\* credentials.json tried whenever it holds a pair
LegacyAlways(valid, loaded) == loaded # "absent"

\* line 463: credentials.json is tried when no token is held and it holds a pair
LegacyTried(valid, loaded) == ~valid /\ loaded # "absent"

\* how save_credentials (lines 383-393) ends: the file written, or an error logged
SaveOutcomes == {"written", "io_error"}

\* get_access_token (lines 166-192): the token, or None
get_access_token(credentials, answer) ==
  IF answer = "reply" /\ credentials = "valid" THEN "token1" ELSE None

\* How one call of start_recording can end when a stream URL is found.
StartOutcomes == {"started", "no_ffmpeg", "launch_error", "makedirs_error"}

\* why start_recording does not return a recording: os.makedirs raised (line
\* 278), the resolution raised or found nothing (lines 295-298), or the outcome
StartResult(outcome, lib, url) ==
  IF outcome = "makedirs_error" THEN "makedirs_error"
  ELSE IF lib.raised # "none" THEN "resolution_error"
  ELSE IF url = None THEN "no_stream_url"
  ELSE outcome

\* How process.terminate() (line 335) can end: it returns, or raises
\* ProcessLookupError, or raises another exception.
TerminateOutcomes == {"returned", "lookup_error", "error"}

\* How process.communicate(timeout=10) (line 338) can end.
CommunicateOutcomes == {"exited", "timeout", "error"}

\* a run of whitespace in a command template
Blank == " "

\* the values of post_processing_command in config.ini: nothing, whitespace only,
\* and a command with both placeholders and whitespace around it
Templates ==
  {<< >>, <<Blank, Blank>>, <<Blank, "notify", Blank, "{filepath}", "{username}", Blank>>}

\* str.lstrip()
RECURSIVE LStrip(_)
LStrip(t) == IF t # << >> /\ Head(t) = Blank THEN LStrip(Tail(t)) ELSE t

\* str.rstrip()
RECURSIVE RStrip(_)
RStrip(t) ==
  IF t # << >> /\ t[Len(t)] = Blank THEN RStrip(SubSeq(t, 1, Len(t) - 1)) ELSE t

\* str.strip() with nothing stripped
StripNothing(t) == t

\* str.strip() (line 573)
Strip(t) == RStrip(LStrip(t))

\* How subprocess.run of the post-processing command (line 580) can end.
PostOutcomes == {"success", "nonzero", "timeout"}

\* what a configured path (line 66) or FFMPEG_PATH (line 84) can be: not set,
\* a path that does not exist, a file, or a directory holding any of the two
\* executable names
FfmpegPaths ==
  {[kind |-> k, entries |-> {}] : k \in {"unset", "missing", "file"}}
    \cup {[kind |-> "dir", entries |-> s] : s \in SUBSET {"ffmpeg", "ffmpeg.exe"}}

\* everything get_ffmpeg_path looks at: the two paths, whether
\* shutil.which("ffmpeg") finds something, and os.name
FfmpegSources ==
  [config : FfmpegPaths, env : FfmpegPaths, which : BOOLEAN, os_name : {"posix", "nt"}]

\* get_ffmpeg_path returns None (line 102)
NotFound == [source |-> "none", file |-> "none"]

\* get_ffmpeg_path with FFMPEG_PATH looked at before the configured path
get_ffmpeg_path_env_first(s) ==
  LET exe_name == IF s.os_name = "nt" THEN "ffmpeg.exe" ELSE "ffmpeg"
  IN IF s.env.kind = "file" THEN [source |-> "env", file |-> "self"]
     ELSE IF s.env.kind = "dir" /\ exe_name \in s.env.entries
       THEN [source |-> "env", file |-> exe_name]
     ELSE IF s.config.kind = "file" THEN [source |-> "config", file |-> "self"]
     ELSE IF s.config.kind = "dir" /\ exe_name \in s.config.entries
       THEN [source |-> "config", file |-> exe_name]
     ELSE IF s.which THEN [source |-> "path", file |-> "which"]
     ELSE NotFound

\* get_ffmpeg_path (lines 63-102): the source the path comes from and the file
\* it names (the path itself, or an executable of the directory)
get_ffmpeg_path(s) ==
  LET exe_name == IF s.os_name = "nt" THEN "ffmpeg.exe" ELSE "ffmpeg"
  IN IF s.config.kind = "file" THEN [source |-> "config", file |-> "self"]
     ELSE IF s.config.kind = "dir" /\ exe_name \in s.config.entries
       THEN [source |-> "config", file |-> exe_name]
     ELSE IF s.config.kind = "dir" /\ s.os_name = "nt" /\ "ffmpeg" \in s.config.entries
       THEN [source |-> "config", file |-> "ffmpeg"]
     ELSE IF s.env.kind = "file" THEN [source |-> "env", file |-> "self"]
     ELSE IF s.env.kind = "dir" /\ exe_name \in s.env.entries
       THEN [source |-> "env", file |-> exe_name]
     ELSE IF s.which THEN [source |-> "path", file |-> "which"]
     ELSE NotFound

\* ffmpeg is installed on the PATH and nothing else is set
FfmpegOnPath ==
  [config |-> [kind |-> "unset", entries |-> {}],
   env |-> [kind |-> "unset", entries |-> {}], which |-> TRUE, os_name |-> "posix"]

\* no ffmpeg anywhere
FfmpegNowhere ==
  [config |-> [kind |-> "unset", entries |-> {}],
   env |-> [kind |-> "unset", entries |-> {}], which |-> FALSE, os_name |-> "posix"]

\* longest text of users.txt and of the answer typed at its prompt
MaxChars == 4

\* the characters of such a text: two letters, whitespace and the comma
UserChars == {"a", "b", Blank, ","}

\* the texts of at most MaxChars characters
UserTexts == UNION {[1..n -> UserChars] : n \in 0..MaxChars}

\* str.split(',')
RECURSIVE Split(_)
Split(text) ==
  IF \A i \in 1..Len(text) : text[i] # "," THEN <<text>>
  ELSE LET i == CHOOSE k \in 1..Len(text) :
                   text[k] = "," /\ \A j \in 1..(k - 1) : text[j] # ","
       IN <<SubSeq(text, 1, i - 1)>> \o Split(SubSeq(text, i + 1, Len(text)))

\* [user.strip() for user in ... if user.strip()] (lines 111, 132)
RECURSIVE StripEach(_)
StripEach(pieces) ==
  IF pieces = << >> THEN << >>
  ELSE LET user == Strip(Head(pieces))
       IN (IF user # << >> THEN <<user>> ELSE << >>) \o StripEach(Tail(pieces))

\* the list kept with its repetitions
KeepDuplicates(names) == names

\* list(dict.fromkeys(names)) (lines 117, 138): first occurrences, in order
RECURSIVE Dedupe(_)
Dedupe(names) ==
  IF names = << >> THEN << >>
  ELSE LET rest == Dedupe(SubSeq(names, 1, Len(names) - 1))
           last == names[Len(names)]
       IN IF \E i \in 1..Len(rest) : rest[i] = last THEN rest ELSE Append(rest, last)

\* lines 109-117 and 127-138: the user names of a text
unique_usernames(text) == Dedupe(StripEach(Split(Strip(text))))

\* ','.join(names) (line 148)
RECURSIVE Join(_)
Join(names) ==
  IF names = << >> THEN << >>
  ELSE IF Len(names) = 1 THEN names[1]
  ELSE names[1] \o <<",">> \o Join(Tail(names))

\* users.txt: missing, not readable, or holding a text
UsersFiles ==
  {[state |-> s, content |-> << >>] : s \in {"missing", "unreadable"}}
    \cup {[state |-> "readable", content |-> t] : t \in UserTexts}

\* what input() of line 128 gives: a text, or end of input
UserInputs ==
  {[eof |-> TRUE, text |-> << >>]} \cup {[eof |-> FALSE, text |-> t] : t \in UserTexts}

\* how the save of lines 145-148 ends: not asked for, written, or IOError
SaveChoices == {"no", "yes", "yes_io_error"}

\* config.ini at lines 150-156: it exists, or is created, or cannot be written
ConfigFileStates == {"exists", "created", "io_error"}

\* longest text put before and after the letters of a file name component
MaxEdge == 2

\* line 269: sanitized[:100]
FILENAME_LIMIT == 100

\* a control character (\x00-\x1f), here the tab
Control == "\\t"

\* the characters replaced at line 265: one of \ / * ? : " < > | and a control
\* character
ForbiddenChars == {"/", Control}

\* the characters of a file name component: a letter, the underscore, a space
\* and the characters replaced
FilenameChars == {"a", "_", Blank} \cup ForbiddenChars

\* the texts of at most MaxEdge characters
EdgeTexts == UNION {[1..n -> FilenameChars] : n \in 0..MaxEdge}

\* the components sanitize_filename is applied to: short ones, and ones that
\* reach FILENAME_LIMIT by a run of letters in the middle
FilenameComponents ==
  {before \o [i \in 1..n |-> "a"] \o after :
     before \in EdgeTexts, after \in EdgeTexts,
     n \in {0, FILENAME_LIMIT - 1, FILENAME_LIMIT}}

\* re.sub(r'[\\/*?:"<>|\x00-\x1f]', '_', ...) (line 265)
ReplaceForbidden(t) == [i \in 1..Len(t) |-> IF t[i] \in ForbiddenChars THEN "_" ELSE t[i]]

\* re.sub(r'_+', '_', ...) (line 266)
CollapseUnderscores(t) ==
  LET with_previous == [i \in 1..Len(t) |-> <<t[i], IF i > 1 THEN t[i - 1] ELSE "">>]
      FirstOfRun(pair) == ~(pair[1] = "_" /\ pair[2] = "_")
      kept == SelectSeq(with_previous, FirstOfRun)
  IN [i \in 1..Len(kept) |-> kept[i][1]]

\* .strip('_') (line 268)
StripUnderscores(t) ==
  LET kept == {i \in 1..Len(t) : t[i] # "_"}
  IN IF kept = {} THEN << >>
     ELSE SubSeq(t, CHOOSE i \in kept : \A j \in kept : i <= j,
                    CHOOSE i \in kept : \A j \in kept : i >= j)

\* [:100] (line 269)
Truncate(t) == IF Len(t) > FILENAME_LIMIT THEN SubSeq(t, 1, FILENAME_LIMIT) ELSE t

\* sanitize_filename (lines 262-269)
sanitize_filename(filename_component) ==
  IF filename_component = << >> THEN << >>
  ELSE Truncate(StripUnderscores(CollapseUnderscores(ReplaceForbidden(filename_component))))

\* line 26, as a list of pieces: the placeholders, and the text between them
DEFAULT_FILENAME_FORMAT ==
  <<"{timestamp}", "_", "{username}", "_", "{title}", ".mp4">>

\* the values of filename_format (line 275): the default, one without the
\* title, and two with the title in another place
FilenameFormats ==
  {DEFAULT_FILENAME_FORMAT,
   <<"{timestamp}", "_", "{username}", ".mp4">>,
   <<"{title}", "_", "{username}", ".mp4">>,
   <<"{username}", "{title}", ".mp4">>}

\* the titles start_recording is called with: None, or a text of at most
\* MaxEdge characters
StreamTitles ==
  {[present |-> FALSE, text |-> << >>]}
    \cup {[present |-> TRUE, text |-> t] : t \in EdgeTexts}

\* str.replace(old, new)
RECURSIVE Replace(_, _, _)
Replace(text, old, new) ==
  IF Len(text) < Len(old) THEN text
  ELSE IF SubSeq(text, 1, Len(old)) = old
    THEN new \o Replace(SubSeq(text, Len(old) + 1, Len(text)), old, new)
  ELSE <<Head(text)>> \o Replace(Tail(text), old, new)

\* lines 283-293: the file name start_recording forms
format_filename(format, timestamp_str, username, title) ==
  LET filename ==
        Replace(Replace(format, <<"{timestamp}">>, timestamp_str),
                <<"{username}">>, username)
  IN IF title.present /\ title.text # << >>
          /\ \E i \in 1..Len(filename) : filename[i] = "{title}"
       THEN Replace(filename, <<"{title}">>, sanitize_filename(title.text))
       ELSE Replace(Replace(filename, <<"_", "{title}">>, << >>), <<"{title}">>, << >>)

\* now.strftime('%Y-%m-%d-%H-%M-%S') (line 281) and the user recorded
TimestampStr == <<"2023-01-01-12-00-00">>
Username == <<"alice">>

VARIABLES
  pc,                        \* position of main() in the loop / finally block
  cycle,                     \* number of the current poll cycle (the clock of datetime.now())
  idx,                       \* index in users of the user whose status is checked next
  live_status,               \* live_status of each user in this cycle ("unchecked" before)
  current_live_user_titles,  \* dict user -> title of the users seen live this cycle
  users_to_start_recording,  \* keys of the dict computed at line 554
  users_to_stop_recording,   \* list computed at line 557
  auth_failure_cycle,        \* TRUE iff an is_live of this cycle returned AUTH_FAILURE
  cycle_start_processes,     \* processes as it was when the cycle began
  start_failed,              \* TRUE iff a start_recording of this cycle returned None
  processes,                 \* dict user -> recording info, in insertion order
  procs,                     \* every capture process launched so far, by pid
  recording_info,            \* pid returned by start_recording, not yet stored (0: none)
  failed_start_user,         \* user of the last start that failed in this or the previous cycle
  start_error,               \* why the start_recording call in hand returned None or raised
  process_info_to_stop,      \* pid handed to stop_recording (0: none)
  stop_outcome,              \* how the stop_recording call in hand has ended ("none" before)
  signals_sent,              \* signals sent by the stop_recording call in hand, in order
  state_at_stop,             \* "running" or "exited": the process when terminate() was called
  post_processing_command,   \* post_processing_command of config.ini, as a list of pieces
  post_runs,                 \* post-processing commands launched: user, filepath, state
  completed_process,         \* outcome of the post-processing command last run
  access_token,              \* the token every is_live call is made with
  failed_tokens,             \* tokens for which is_live has returned AUTH_FAILURE
  stale_check,               \* TRUE once is_live was called with a token in failed_tokens
  token_requests,            \* number of get_access_token calls made so far
  auth_failure_requests,     \* token_requests when AUTH_FAILURE was last returned (0: never)
  shutting_down,             \* TRUE once the finally block has been entered
  active_recordings,         \* list(processes.items()) of the finally block
  shutdown_processes,        \* processes as it was when the finally block began
  exit_cause,                \* "none", "interrupt", "error" or "interrupt_in_finally"
  response,                  \* is_live on its own: the response to the request
  live_result,               \* is_live on its own: the pair returned ("pending" before)
  streams,                   \* get_stream_url on its own: what streamlink.streams does
  stream_quality_config,     \* stream_quality of config.ini
  stream_url,                \* get_stream_url on its own: the value returned ("pending" before)
  conf_credentials,          \* client_id/client_secret of config.ini: absent, invalid or valid
  loaded_credentials,        \* the pair of credentials.json: absent, invalid or valid
  credential_attempts,       \* credential_attempts of main()
  access_token_valid,        \* access_token_valid of main()
  prompts_offered,           \* number of times the prompt of lines 480-481 was shown
  token_exchange,            \* credentials and answer of the last get_access_token call
  sources_tried,             \* the sources get_access_token was called for, in order
  client_id,                 \* the source of the pair main() keeps as client_id ("none" before)
  credentials_saved,         \* the pair save_credentials has written ("none": nothing written)
  ffmpeg_sources,            \* what get_ffmpeg_path finds in config.ini, FFMPEG_PATH and PATH
  ffmpeg_path,               \* get_ffmpeg_path on its own: the value returned ("pending" before)
  users_file,                \* read_users_from_file on its own: users.txt as it is found
  user_input,                \* the answer to the prompt of line 128
  users_saved,               \* what lines 147-148 have written to users.txt
  read_users,                \* how read_users_from_file has ended, and the list returned
  filename_component,        \* sanitize_filename on its own: its argument
  sanitized,                 \* sanitize_filename on its own: the value returned, once returned
  filename_format,           \* filename_format of config.ini, as a list of pieces
  stream_title,              \* the stream_title start_recording is called with
  filename                   \* the file name formed at lines 283-290, once formed

\* the locals of one pass of the while loop
cycleVars ==
  <<idx, live_status, current_live_user_titles, users_to_start_recording,
    users_to_stop_recording, auth_failure_cycle, cycle_start_processes, start_failed>>

tokenVars ==
  <<access_token, failed_tokens, stale_check, token_requests, auth_failure_requests>>

stopVars == <<process_info_to_stop, stop_outcome, signals_sent, state_at_stop>>

postVars == <<post_runs, completed_process>>

shutdownVars == <<shutting_down, active_recordings, shutdown_processes, exit_cause>>

\* the values read from config.ini
configVars == <<stream_quality_config, post_processing_command>>

\* the call of is_live examined on its own
isLiveVars == <<response, live_result>>

\* the variables of the startup and of the functions examined on their own, at
\* rest in the poll loop
\* the call of get_stream_url examined on its own
resolveVars == <<streams, stream_url>>

\* the authentication of lines 441-499
startupVars ==
  <<conf_credentials, loaded_credentials, credential_attempts, access_token_valid,
    prompts_offered, token_exchange, sources_tried, client_id, credentials_saved>>

\* the call of get_ffmpeg_path examined on its own
ffmpegVars == <<ffmpeg_sources, ffmpeg_path>>

\* the functions of the file system and of the file names examined on their own
\* the call of read_users_from_file examined on its own
usersVars == <<users_file, user_input, users_saved, read_users>>

\* the call of sanitize_filename examined on its own
sanitizeVars == <<filename_component, sanitized>>

\* the file name of start_recording examined on its own
filenameVars == <<filename_format, stream_title, filename>>

pureVars == <<ffmpegVars, usersVars, sanitizeVars, filenameVars>>

callVars == <<isLiveVars, resolveVars, startupVars, pureVars>>

\* the variables of the poll loop and of the shutdown
loopVars ==
  <<pc, cycle, cycleVars, processes, procs, recording_info, start_error,
    failed_start_user, stopVars, configVars, postVars, tokenVars, shutdownVars>>

\* the variables of the loop that the startup does not write
recorderVars ==
  <<cycle, cycleVars, processes, procs, recording_info, start_error,
    failed_start_user, stopVars, configVars, postVars, failed_tokens, stale_check,
    auth_failure_requests, shutdownVars>>

vars == <<loopVars, callVars>>

\* ------------------------------------------------------------------ helpers
\* keys of the processes dict, in insertion order
Keys(ps) == [i \in 1..Len(ps) |-> ps[i].username]

KeySet(ps) == {ps[i].username : i \in 1..Len(ps)}

\* processes[u]
PidOf(ps, u) == ps[CHOOSE i \in 1..Len(ps) : ps[i].username = u].pid

\* processes.pop(u)
Pop(ps, u) == SelectSeq(ps, LAMBDA e : e.username # u)

\* processes[u] = recording_info, with the store forgotten
StoreNothing(ps, u, pid) == ps

\* processes[u] = recording_info (line 563)
Store(ps, u, pid) ==
  IF u \in KeySet(ps)
    THEN [i \in 1..Len(ps) |->
            IF ps[i].username = u THEN [username |-> u, pid |-> pid] ELSE ps[i]]
    ELSE Append(ps, [username |-> u, pid |-> pid])

\* the keys of current_live_user_titles
LiveKeys(titles) == {u \in UserSet : titles[u] # Absent}

\* current_live_user_titles = {} (line 530)
NoLiveUsers == [u \in UserSet |-> Absent]

\* current_live_user_titles with the entries of the last cycle kept
KeepTitles(titles) == titles

\* current_live_user_titles.clear() at the top of each pass (line 534)
Cleared(titles) == NoLiveUsers

\* live_status before the status check of the cycle
Unchecked == [u \in UserSet |-> "unchecked"]

\* users_to_start_recording with the user of a failed start left out
UsersToStartNotFailed(titles, ps) ==
  SelectSeq(users, LAMBDA u : u \in LiveKeys(titles) /\ u \notin KeySet(ps)
                                /\ u # failed_start_user)

\* users_to_start_recording with the status results left out
UsersToStartUnchecked(titles, ps) == SelectSeq(users, LAMBDA u : u \notin KeySet(ps))

\* users_to_start_recording (line 554): live users with no entry in processes
UsersToStart(titles, ps) ==
  SelectSeq(users, LAMBDA u : u \in LiveKeys(titles) /\ u \notin KeySet(ps))

\* users_to_stop_recording, stopping every recorded user
UsersToStopAll(titles, ps) == Keys(ps)

\* users_to_stop_recording, stopping nobody
UsersToStopNone(titles, ps) == << >>

\* users_to_stop_recording, stopping every tracked user
UsersToStopTracked(titles, ps) == users

\* users_to_stop_recording (line 557): recorded users not seen live this cycle
UsersToStop(titles, ps) ==
  SelectSeq(Keys(ps), LAMBDA u : u \notin LiveKeys(titles))

\* output_path of start_recording: user directory, timestamp, title part
OutputPath(u, now, title) == <<u, now, title>>

\* where stop_recording returns to: line 573 in the loop, line 608 in the finally block
AfterStop == IF shutting_down THEN "finally_loop" ELSE "post_process"

\* the TimeoutExpired handler with the kill left out
AfterTimeoutNoKill == "stop_reap"

\* line 344: TimeoutExpired of communicate(timeout=10) leads to process.kill()
AfterTimeout == "stop_kill"

\* an outcome other than success leaves the loop
AfterPostUncaught(outcome) == IF outcome = "success" THEN "stop_loop" ELSE "finally"

\* lines 581-596: every outcome of the command is logged and the stop loop goes on
AfterPost(outcome) == "stop_loop"

\* subprocess.run (line 580) returns only when the command has ended or timed out
AfterPostLaunch == "post_wait"

\* subprocess.run kills the command it waits for when an exception passes through it
KillRunning(runs) ==
  {IF r.state = "running" THEN [r EXCEPT !.state = "killed"] ELSE r : r \in runs}

\* get_access_token has been called and has returned the token (lines 455-499)
StartupTokenRequests == 1

\* ------------------------------------------------------------------ initial state
\* line 529: no recording exists and nothing is in hand
InitRecorder ==
  /\ cycle = 1
  /\ idx = 1
  /\ live_status = Unchecked
  /\ current_live_user_titles = NoLiveUsers
  /\ users_to_start_recording = << >>
  /\ users_to_stop_recording = << >>
  /\ auth_failure_cycle = FALSE
  /\ cycle_start_processes = << >>
  /\ start_failed = FALSE
  /\ processes = << >>
  /\ procs = << >>
  /\ recording_info = 0
  /\ start_error = "none"
  /\ failed_start_user = "none"
  /\ process_info_to_stop = 0
  /\ stop_outcome = "none"
  /\ signals_sent = << >>
  /\ state_at_stop = "none"
  /\ post_runs = {}
  /\ completed_process = "none"
  /\ failed_tokens = {}
  /\ stale_check = FALSE
  /\ auth_failure_requests = 0
  /\ shutting_down = FALSE
  /\ active_recordings = << >>
  /\ shutdown_processes = << >>
  /\ exit_cause = "none"

\* lines 529-530: the loop is entered with a validated token and no recording
InitLoop ==
  /\ InitRecorder
  /\ pc = "check"
  /\ access_token = "token1"
  /\ token_requests = StartupTokenRequests

\* no request has been answered
NoResponse ==
  [status |-> "none", body |-> [kind |-> "not_json", has_data |-> FALSE, data |-> << >>]]

\* is_live has not returned
Pending == [live_status |-> "pending", title |-> NoTitle]

\* the startup as it is left when the credentials of config.ini are accepted at once
StartupDone ==
  /\ conf_credentials = "valid"
  /\ loaded_credentials = "absent"
  /\ credential_attempts = 0
  /\ access_token_valid = TRUE
  /\ prompts_offered = 0
  /\ token_exchange = [credentials |-> "valid", answer |-> "reply"]
  /\ sources_tried = <<"config">>
  /\ client_id = "config"
  /\ credentials_saved = "none"

\* get_ffmpeg_path has not been called on its own
FfmpegAtRest ==
  /\ ffmpeg_sources = FfmpegOnPath
  /\ ffmpeg_path = [source |-> "pending", file |-> "none"]

\* read_users_from_file has not been called on its own
UsersAtRest ==
  /\ users_file = [state |-> "missing", content |-> << >>]
  /\ user_input = [eof |-> FALSE, text |-> << >>]
  /\ users_saved = [written |-> FALSE, content |-> << >>, config_created |-> FALSE]
  /\ read_users = [outcome |-> "pending", prompted |-> FALSE, usernames |-> << >>]

\* sanitize_filename has not been called on its own
SanitizeAtRest ==
  /\ filename_component = << >>
  /\ sanitized = [returned |-> FALSE, text |-> << >>]

\* no file name is formed on its own
FilenameAtRest ==
  /\ filename_format = DEFAULT_FILENAME_FORMAT
  /\ stream_title = [present |-> FALSE, text |-> << >>]
  /\ filename = [formed |-> FALSE, text |-> << >>]

\* the functions of pureVars are at rest
PureAtRest == FfmpegAtRest /\ UsersAtRest /\ SanitizeAtRest /\ FilenameAtRest

\* in the poll loop the functions examined on their own are at rest
InitCalls ==
  /\ response = NoResponse
  /\ live_result = Pending
  /\ streams = [raised |-> "none", variants |-> << >>]
  /\ stream_url = "pending"
  /\ StartupDone
  /\ PureAtRest

\* lines 402-425: the values of config.ini the loop runs with
InitConfig ==
  /\ stream_quality_config = DEFAULT_STREAM_QUALITY
  /\ post_processing_command \in Templates

Init == InitLoop /\ InitConfig /\ InitCalls

\* ------------------------------------------------------------------ the poll loop
\* lines 536-552: the status check of users[idx]
CheckUser ==
  /\ pc = "check"
  /\ idx <= Len(users)
  /\ \E resp \in Responses(users[idx]) :
       LET u == users[idx]
           r == is_live(resp)
       IN /\ live_status' = [live_status EXCEPT ![u] = r.live_status]
          /\ current_live_user_titles' =
               IF r.live_status = "True"
                 THEN [current_live_user_titles EXCEPT ![u] = r.title]
                 ELSE current_live_user_titles
          /\ failed_tokens' =
               IF r.live_status = "AUTH_FAILURE"
                 THEN failed_tokens \cup {access_token}
                 ELSE failed_tokens
          /\ auth_failure_cycle' = (auth_failure_cycle \/ r.live_status = "AUTH_FAILURE")
          /\ stale_check' = (stale_check \/ access_token \in failed_tokens)
          /\ auth_failure_requests' =
               IF r.live_status = "AUTH_FAILURE" THEN token_requests
               ELSE auth_failure_requests
  /\ idx' = idx + 1
  /\ pc' = IF idx = Len(users) THEN "decide" ELSE "check"
  /\ UNCHANGED <<cycle, users_to_start_recording, users_to_stop_recording,
                 cycle_start_processes, start_failed, processes, procs, recording_info,
                 start_error, failed_start_user, stopVars, configVars, postVars, access_token,
                 token_requests, shutdownVars>>
  /\ UNCHANGED callVars

\* lines 554-557: the users to start and the users to stop
Decide ==
  /\ pc = "decide"
  /\ users_to_start_recording' = UsersToStart(current_live_user_titles, processes)
  /\ users_to_stop_recording' = UsersToStop(current_live_user_titles, processes)
  /\ pc' = "start_loop"
  /\ UNCHANGED <<cycle, idx, live_status, current_live_user_titles, auth_failure_cycle,
                 cycle_start_processes, start_failed, processes, procs, recording_info,
                 start_error,
                 failed_start_user, stopVars, configVars, postVars, tokenVars, shutdownVars>>
  /\ UNCHANGED callVars

\* the exception leaves the try block (lines 601-605): the locals of the loop are
\* not read again, and a post-processing command being waited for is killed
Unwind(cause) ==
  /\ exit_cause' = cause
  /\ pc' = "finally"
  /\ idx' = 1
  /\ live_status' = Unchecked
  /\ current_live_user_titles' = NoLiveUsers
  /\ users_to_start_recording' = << >>
  /\ users_to_stop_recording' = << >>
  /\ auth_failure_cycle' = FALSE
  /\ cycle_start_processes' = << >>
  /\ start_failed' = FALSE
  /\ post_runs' = KillRunning(post_runs)
  /\ failed_start_user' = "none"
  /\ UNCHANGED <<cycle, processes, recording_info, stopVars, configVars,
                 completed_process, tokenVars, shutting_down, active_recordings,
                 shutdown_processes>>

\* lines 559-561 with start_recording (lines 271-321)
StartRecording ==
  /\ pc = "start_loop"
  /\ users_to_start_recording # << >>
  /\ LET u == Head(users_to_start_recording)
     IN IF u \in KeySet(processes)
          THEN /\ users_to_start_recording' = Tail(users_to_start_recording)
               /\ UNCHANGED <<pc, procs, recording_info, start_error,
                              failed_start_user, start_failed,
                              exit_cause, idx, live_status, current_live_user_titles,
                              users_to_stop_recording, auth_failure_cycle,
                              cycle_start_processes, post_runs>>
          ELSE \E outcome \in StartOutcomes, lib \in StreamResults :
                 LET url == get_stream_url(lib, stream_quality_config)
                     result == StartResult(outcome, lib, url)
                 IN CASE result = "makedirs_error" \/ url = Raised ->
                           /\ Unwind("error")
                           /\ start_error' = result
                           /\ UNCHANGED procs
                      [] result = "started" ->
                           /\ Len(procs) < MaxProcs
                           /\ procs' = Append(procs,
                                [username |-> u,
                                 output_path |->
                                   OutputPath(u, cycle, current_live_user_titles[u]),
                                 alive |-> TRUE, stop |-> "none"])
                           /\ recording_info' = Len(procs) + 1
                           /\ pc' = "start_store"
                           /\ UNCHANGED <<cycleVars, start_error,
                                          failed_start_user, exit_cause, post_runs>>
                      [] OTHER ->
                           /\ start_error' = result
                           /\ pc' = "start_none"
                           /\ UNCHANGED <<cycleVars, procs, recording_info, exit_cause,
                                          post_runs, failed_start_user>>
  /\ UNCHANGED <<cycle, processes, stopVars, configVars, completed_process,
                 tokenVars, shutting_down, active_recordings, shutdown_processes>>
  /\ UNCHANGED callVars

\* lines 564-565: start_recording returned None, which is logged
StartFailed ==
  /\ pc = "start_none"
  /\ start_failed' = TRUE
  /\ start_error' = "none"
  /\ failed_start_user' = Head(users_to_start_recording)
  /\ users_to_start_recording' = Tail(users_to_start_recording)
  /\ pc' = "start_loop"
  /\ UNCHANGED <<cycle, idx, live_status, current_live_user_titles,
                 users_to_stop_recording, auth_failure_cycle, cycle_start_processes,
                 processes, procs, recording_info, stopVars, configVars, postVars,
                 tokenVars, shutdownVars>>
  /\ UNCHANGED callVars

\* lines 562-563: the started recording is entered in processes
StoreRecording ==
  /\ pc = "start_store"
  /\ processes' = Store(processes, Head(users_to_start_recording), recording_info)
  /\ users_to_start_recording' = Tail(users_to_start_recording)
  /\ recording_info' = 0
  /\ pc' = "start_loop"
  /\ UNCHANGED <<cycle, idx, live_status, current_live_user_titles,
                 users_to_stop_recording, auth_failure_cycle, cycle_start_processes,
                 start_failed, procs, start_error,
                 failed_start_user, stopVars, configVars, postVars,
                 tokenVars, shutdownVars>>
  /\ UNCHANGED callVars

\* line 559 exhausted: on to the stop loop of line 567
StartsDone ==
  /\ pc = "start_loop"
  /\ users_to_start_recording = << >>
  /\ pc' = "stop_loop"
  /\ UNCHANGED <<cycle, cycleVars, processes, procs, recording_info, start_error,
                 failed_start_user, stopVars,
                 configVars, postVars, tokenVars, shutdownVars>>
  /\ UNCHANGED callVars

\* lines 567-570: the next user to stop is popped from processes
PopRecording ==
  /\ pc = "stop_loop"
  /\ users_to_stop_recording # << >>
  /\ LET u == Head(users_to_stop_recording)
     IN IF u \in KeySet(processes)
          THEN /\ process_info_to_stop' = PidOf(processes, u)
               /\ processes' = Pop(processes, u)
               /\ pc' = "stop_terminate"
          ELSE UNCHANGED <<process_info_to_stop, processes, pc>>
  /\ users_to_stop_recording' = Tail(users_to_stop_recording)
  /\ stop_outcome' = "none"
  /\ signals_sent' = << >>
  /\ state_at_stop' = "none"
  /\ completed_process' = "none"
  /\ UNCHANGED <<cycle, idx, live_status, current_live_user_titles,
                 users_to_start_recording, auth_failure_cycle, cycle_start_processes,
                 start_failed, procs, recording_info, start_error,
                 failed_start_user, configVars, post_runs,
                 tokenVars, shutdownVars>>
  /\ UNCHANGED callVars

\* ------------------------------------------------------------------ stop_recording
\* stop_recording returns: the process has been through a stop
Stopped(p, outcome, alive) ==
  /\ procs' = [procs EXCEPT ![p] = [@ EXCEPT !.alive = alive, !.stop = "stopped"]]
  /\ stop_outcome' = outcome
  /\ pc' = AfterStop

\* lines 357-364: except Exception of stop_recording; process.kill() is tried when
\* process.poll() is None, and may itself fail
OuterHandler(p) ==
  \E killed \in BOOLEAN :
    /\ Stopped(p, "error", procs[p].alive /\ ~killed)
    /\ signals_sent' =
         IF procs[p].alive /\ killed THEN Append(signals_sent, "SIGKILL")
         ELSE signals_sent

\* lines 323-335, and the handlers of lines 355-364 when terminate() raises
Terminate ==
  /\ pc = "stop_terminate"
  /\ state_at_stop' = IF procs[process_info_to_stop].alive THEN "running" ELSE "exited"
  /\ LET p == process_info_to_stop
     IN \E outcome \in TerminateOutcomes :
          CASE outcome = "returned" ->
                 /\ procs' = [procs EXCEPT ![p] = [@ EXCEPT !.stop = "in_progress"]]
                 /\ signals_sent' = Append(signals_sent, "SIGTERM")
                 /\ pc' = "stop_communicate"
                 /\ UNCHANGED stop_outcome
            [] outcome = "lookup_error" ->
                 /\ ~procs[p].alive
                 /\ Stopped(p, "already_exited", FALSE)
                 /\ UNCHANGED signals_sent
            [] OTHER -> OuterHandler(p)
  /\ UNCHANGED <<cycle, cycleVars, processes, recording_info, start_error,
                 failed_start_user, process_info_to_stop,
                 configVars, postVars, tokenVars, shutdownVars>>
  /\ UNCHANGED callVars

\* lines 337-353: the wait of at most 10 seconds for the process to exit
Communicate ==
  /\ pc = "stop_communicate"
  /\ LET p == process_info_to_stop
     IN \E outcome \in CommunicateOutcomes :
          CASE outcome = "exited" ->
                 Stopped(p, "graceful", FALSE)
            [] outcome = "timeout" ->
                 /\ procs[p].alive
                 /\ pc' = AfterTimeout
                 /\ UNCHANGED <<procs, stop_outcome>>
            [] OTHER ->
                 Stopped(p, "communicate_error", procs[p].alive)
  /\ UNCHANGED <<cycle, cycleVars, processes, recording_info, start_error,
                 failed_start_user, process_info_to_stop,
                 signals_sent, state_at_stop, configVars, postVars,
                 tokenVars, shutdownVars>>
  /\ UNCHANGED callVars

\* lines 345-346: process.kill() after the timeout; an exception it raises inside
\* the TimeoutExpired handler goes to the handlers of lines 355-364
Kill ==
  /\ pc = "stop_kill"
  /\ \E raised \in BOOLEAN :
       IF raised
         THEN OuterHandler(process_info_to_stop)
         ELSE /\ procs' = [procs EXCEPT ![process_info_to_stop] = [@ EXCEPT !.alive = FALSE]]
              /\ signals_sent' = Append(signals_sent, "SIGKILL")
              /\ pc' = "stop_reap"
              /\ UNCHANGED stop_outcome
  /\ UNCHANGED <<cycle, cycleVars, processes, recording_info, start_error,
                 failed_start_user, process_info_to_stop,
                 state_at_stop, configVars, postVars, tokenVars,
                 shutdownVars>>
  /\ UNCHANGED callVars

\* lines 347-351: the unbounded process.communicate() after the kill
Reap ==
  /\ pc = "stop_reap"
  /\ \E raised \in BOOLEAN :
       IF raised
         THEN OuterHandler(process_info_to_stop)
         ELSE /\ Stopped(process_info_to_stop, "forced", FALSE)
              /\ UNCHANGED signals_sent
  /\ UNCHANGED <<cycle, cycleVars, processes, recording_info, start_error,
                 failed_start_user, process_info_to_stop,
                 state_at_stop, configVars, postVars, tokenVars,
                 shutdownVars>>
  /\ UNCHANGED callVars

\* ------------------------------------------------------------------ post-processing
\* lines 573-580: the command is built and launched, if one is configured
PostProcess ==
  /\ pc = "post_process"
  /\ IF Strip(post_processing_command) # << >>
       THEN LET p == process_info_to_stop
            IN \E launched \in BOOLEAN :
                 /\ post_runs' = post_runs \cup
                      {[username |-> procs[p].username,
                        filepath |-> procs[p].output_path,
                        state |-> IF launched THEN "running" ELSE "ended"]}
                 /\ completed_process' = IF launched THEN "none" ELSE "launch_error"
                 /\ pc' = IF launched THEN AfterPostLaunch ELSE AfterPost("launch_error")
       ELSE /\ pc' = "stop_loop"
            /\ UNCHANGED postVars
  /\ UNCHANGED <<cycle, cycleVars, processes, procs, recording_info, start_error,
                 failed_start_user, stopVars,
                 configVars, tokenVars, shutdownVars>>
  /\ UNCHANGED callVars

\* lines 580-596: subprocess.run returns, or its timeout of 300 seconds expires
PostWait ==
  /\ pc = "post_wait"
  /\ \E r \in post_runs, outcome \in PostOutcomes :
       /\ r.state = "running"
       /\ post_runs' = (post_runs \ {r}) \cup {[r EXCEPT !.state = "ended"]}
       /\ completed_process' = outcome
       /\ pc' = AfterPost(outcome)
  /\ UNCHANGED <<cycle, cycleVars, processes, procs, recording_info, start_error,
                 failed_start_user, stopVars,
                 configVars, tokenVars, shutdownVars>>
  /\ UNCHANGED callVars

\* ------------------------------------------------------------------ end of cycle
\* line 567 exhausted, line 598: the cycle is complete
StopsDone ==
  /\ pc = "stop_loop"
  /\ users_to_stop_recording = << >>
  /\ pc' = "sleep"
  /\ process_info_to_stop' = 0
  /\ stop_outcome' = "none"
  /\ signals_sent' = << >>
  /\ state_at_stop' = "none"
  /\ completed_process' = "none"
  /\ UNCHANGED <<cycle, cycleVars, processes, procs, recording_info, start_error, failed_start_user,
                 configVars, post_runs, tokenVars, shutdownVars>>
  /\ UNCHANGED callVars

\* lines 599, 533-534: the sleep ends and the next cycle begins
NextCycle ==
  /\ pc = "sleep"
  /\ cycle < MaxCycles
  /\ cycle' = cycle + 1
  /\ current_live_user_titles' = Cleared(current_live_user_titles)
  /\ live_status' = Unchecked
  /\ idx' = 1
  /\ auth_failure_cycle' = FALSE
  /\ start_failed' = FALSE
  /\ cycle_start_processes' = processes
  /\ failed_start_user' = IF start_failed THEN failed_start_user ELSE "none"
  /\ pc' = "check"
  /\ UNCHANGED <<users_to_start_recording, users_to_stop_recording, processes, procs,
                 recording_info, start_error, stopVars, configVars, postVars, tokenVars,
                 shutdownVars>>
  /\ UNCHANGED callVars

\* ------------------------------------------------------------------ shutdown
\* line 601: KeyboardInterrupt raised anywhere inside the try block
KeyboardInterrupt ==
  /\ pc \notin {"finally", "done"}
  /\ ~shutting_down
  /\ Unwind("interrupt")
  /\ start_error' = "none"
  /\ UNCHANGED procs
  /\ UNCHANGED callVars

\* lines 605-607: the finally block copies the items of processes
FinallyBegin ==
  /\ pc = "finally"
  /\ shutting_down' = TRUE
  /\ active_recordings' = processes
  /\ shutdown_processes' = processes
  /\ pc' = "finally_loop"
  /\ UNCHANGED <<cycle, cycleVars, processes, procs, recording_info, start_error,
                 failed_start_user, stopVars,
                 configVars, postVars, tokenVars, exit_cause>>
  /\ UNCHANGED callVars

\* lines 608-610: stop_recording is called for the next item
FinallyStop ==
  /\ pc = "finally_loop"
  /\ active_recordings # << >>
  /\ process_info_to_stop' = Head(active_recordings).pid
  /\ active_recordings' = Tail(active_recordings)
  /\ stop_outcome' = "none"
  /\ signals_sent' = << >>
  /\ state_at_stop' = "none"
  /\ pc' = "stop_terminate"
  /\ UNCHANGED <<cycle, cycleVars, processes, procs, recording_info, start_error, failed_start_user,
                 configVars, postVars, tokenVars, shutting_down,
                 shutdown_processes, exit_cause>>
  /\ UNCHANGED callVars

\* line 611: the finally block is complete and main() returns
FinallyDone ==
  /\ pc = "finally_loop"
  /\ active_recordings = << >>
  /\ pc' = "done"
  /\ UNCHANGED <<cycle, cycleVars, processes, procs, recording_info, start_error,
                 failed_start_user, stopVars,
                 configVars, postVars, tokenVars, shutdownVars>>
  /\ UNCHANGED callVars

\* a KeyboardInterrupt raised inside the finally block ends the program at once
InterruptInFinally ==
  /\ shutting_down
  /\ pc # "done"
  /\ exit_cause' = "interrupt_in_finally"
  /\ pc' = "done"
  /\ UNCHANGED <<cycle, cycleVars, processes, procs, recording_info, start_error,
                 failed_start_user, stopVars,
                 configVars, postVars, tokenVars, shutting_down,
                 active_recordings, shutdown_processes>>
  /\ UNCHANGED callVars

\* ------------------------------------------------------------------ environment
\* a capture process ends on its own (the stream ended, or ffmpeg crashed)
ProcessExits ==
  /\ pc # "done"
  /\ \E p \in 1..Len(procs) :
       /\ procs[p].alive
       /\ procs' = [procs EXCEPT ![p] = [@ EXCEPT !.alive = FALSE]]
  /\ UNCHANGED <<pc, cycle, cycleVars, processes, recording_info, start_error,
                 failed_start_user, stopVars,
                 configVars, postVars, tokenVars, shutdownVars>>
  /\ UNCHANGED callVars

Next ==
  \/ CheckUser
  \/ Decide
  \/ StartRecording
  \/ StartFailed
  \/ StoreRecording
  \/ StartsDone
  \/ PopRecording
  \/ Terminate
  \/ Communicate
  \/ Kill
  \/ Reap
  \/ PostProcess
  \/ PostWait
  \/ StopsDone
  \/ NextCycle
  \/ KeyboardInterrupt
  \/ FinallyBegin
  \/ FinallyStop
  \/ FinallyDone
  \/ InterruptInFinally
  \/ ProcessExits

Spec == Init /\ [][Next]_vars

\* ------------------------------------------------------------------ is_live on its own
\* any response can come back to the request of line 203
InitIsLive ==
  /\ InitLoop
  /\ stream_quality_config = DEFAULT_STREAM_QUALITY
  /\ post_processing_command = << >>
  /\ response \in AllResponses
  /\ live_result = Pending
  /\ streams = [raised |-> "none", variants |-> << >>]
  /\ stream_url = "pending"
  /\ StartupDone
  /\ PureAtRest

\* lines 202-228: is_live returns its pair for the response
IsLiveReturns ==
  /\ live_result = Pending
  /\ live_result' = is_live(response)
  /\ UNCHANGED <<response, resolveVars, startupVars, pureVars, loopVars>>

NextIsLive == IsLiveReturns

SpecIsLive == InitIsLive /\ [][NextIsLive]_vars

\* ------------------------------------------------------------------ get_stream_url on its own
\* streamlink.streams can answer anything, for any configured quality
InitResolve ==
  /\ InitLoop
  /\ stream_quality_config \in PreferredQualities
  /\ post_processing_command = << >>
  /\ response = NoResponse
  /\ live_result = Pending
  /\ streams \in StreamResults
  /\ stream_url = "pending"
  /\ StartupDone
  /\ PureAtRest

\* lines 235-260: get_stream_url returns
GetStreamUrlReturns ==
  /\ stream_url = "pending"
  /\ stream_url' = get_stream_url(streams, stream_quality_config)
  /\ UNCHANGED <<streams, isLiveVars, startupVars, pureVars, loopVars>>

NextResolve == GetStreamUrlReturns

SpecResolve == InitResolve /\ [][NextResolve]_vars

\* ------------------------------------------------------------------ get_ffmpeg_path on its own
\* the paths can be anything, on either system
InitFfmpeg ==
  /\ InitLoop
  /\ stream_quality_config = DEFAULT_STREAM_QUALITY
  /\ post_processing_command = << >>
  /\ response = NoResponse
  /\ live_result = Pending
  /\ streams = [raised |-> "none", variants |-> << >>]
  /\ stream_url = "pending"
  /\ StartupDone
  /\ ffmpeg_sources \in FfmpegSources
  /\ ffmpeg_path = [source |-> "pending", file |-> "none"]
  /\ UsersAtRest
  /\ SanitizeAtRest
  /\ FilenameAtRest

\* lines 65-102: get_ffmpeg_path returns
GetFfmpegPathReturns ==
  /\ ffmpeg_path.source = "pending"
  /\ ffmpeg_path' = get_ffmpeg_path(ffmpeg_sources)
  /\ UNCHANGED <<ffmpeg_sources, usersVars, sanitizeVars, filenameVars, isLiveVars, resolveVars,
                 startupVars, loopVars>>

NextFfmpeg == GetFfmpegPathReturns

SpecFfmpeg == InitFfmpeg /\ [][NextFfmpeg]_vars

\* ------------------------------------------------------------------ read_users_from_file on its own
\* users.txt can be missing, unreadable, or hold any text
InitUsers ==
  /\ InitLoop
  /\ stream_quality_config = DEFAULT_STREAM_QUALITY
  /\ post_processing_command = << >>
  /\ response = NoResponse
  /\ live_result = Pending
  /\ streams = [raised |-> "none", variants |-> << >>]
  /\ stream_url = "pending"
  /\ StartupDone
  /\ FfmpegAtRest
  /\ users_file \in UsersFiles
  /\ user_input = [eof |-> FALSE, text |-> << >>]
  /\ users_saved = [written |-> FALSE, content |-> << >>, config_created |-> FALSE]
  /\ read_users = [outcome |-> "pending", prompted |-> FALSE, usernames |-> << >>]
  /\ SanitizeAtRest
  /\ FilenameAtRest

\* lines 107-125 and 161-163: the file is read; its names are returned, or
\* FileNotFoundError leads to the prompt, or another IOError ends the program
ReadUsersFile ==
  /\ read_users.outcome = "pending"
  /\ read_users' =
       IF users_file.state = "unreadable"
         THEN [outcome |-> "exit", prompted |-> FALSE, usernames |-> << >>]
       ELSE IF users_file.state = "missing" \/ Strip(users_file.content) = << >>
                 \/ StripEach(Split(Strip(users_file.content))) = << >>
         THEN [outcome |-> "prompting", prompted |-> TRUE, usernames |-> << >>]
       ELSE [outcome |-> "returned", prompted |-> FALSE,
             usernames |-> unique_usernames(users_file.content)]
  /\ UNCHANGED <<users_file, user_input, users_saved, ffmpegVars, sanitizeVars,
                 filenameVars, isLiveVars, resolveVars, startupVars, loopVars>>

\* lines 126-160: the prompt is answered; without a name the program exits
\* (an EOFError of input() ends it too), else the names are returned, after
\* they were written to users.txt if this was asked for and could be done
PromptUsers ==
  /\ read_users.outcome = "prompting"
  /\ \E answer \in UserInputs, save_choice \in SaveChoices,
          config_file \in ConfigFileStates :
       /\ user_input' = answer
       /\ IF answer.eof
            THEN /\ read_users' = [read_users EXCEPT !.outcome = "raised"]
                 /\ UNCHANGED users_saved
          ELSE IF Strip(answer.text) = << >>
                    \/ StripEach(Split(Strip(answer.text))) = << >>
            THEN /\ read_users' = [read_users EXCEPT !.outcome = "exit"]
                 /\ UNCHANGED users_saved
          ELSE /\ read_users' = [outcome |-> "returned", prompted |-> TRUE,
                                 usernames |-> unique_usernames(answer.text)]
               /\ users_saved' =
                    IF save_choice = "yes"
                      THEN [written |-> TRUE,
                            content |-> Join(unique_usernames(answer.text)),
                            config_created |-> (config_file = "created")]
                      ELSE users_saved
  /\ UNCHANGED <<users_file, ffmpegVars, sanitizeVars, filenameVars, isLiveVars, resolveVars,
                 startupVars, loopVars>>

NextUsers == ReadUsersFile \/ PromptUsers

SpecUsers == InitUsers /\ [][NextUsers]_vars

\* ------------------------------------------------------------------ sanitize_filename on its own
\* any component can be given
InitSanitize ==
  /\ InitLoop
  /\ stream_quality_config = DEFAULT_STREAM_QUALITY
  /\ post_processing_command = << >>
  /\ response = NoResponse
  /\ live_result = Pending
  /\ streams = [raised |-> "none", variants |-> << >>]
  /\ stream_url = "pending"
  /\ StartupDone
  /\ FfmpegAtRest
  /\ UsersAtRest
  /\ filename_component \in FilenameComponents
  /\ sanitized = [returned |-> FALSE, text |-> << >>]
  /\ FilenameAtRest

\* lines 263-269: sanitize_filename returns
SanitizeReturns ==
  /\ ~sanitized.returned
  /\ sanitized' = [returned |-> TRUE, text |-> sanitize_filename(filename_component)]
  /\ UNCHANGED <<filename_component, ffmpegVars, usersVars, filenameVars, isLiveVars,
                 resolveVars, startupVars, loopVars>>

NextSanitize == SanitizeReturns

SpecSanitize == InitSanitize /\ [][NextSanitize]_vars

\* ------------------------------------------------------------------ the file name on its own
\* any format with any title
InitFilename ==
  /\ InitLoop
  /\ stream_quality_config = DEFAULT_STREAM_QUALITY
  /\ post_processing_command = << >>
  /\ response = NoResponse
  /\ live_result = Pending
  /\ streams = [raised |-> "none", variants |-> << >>]
  /\ stream_url = "pending"
  /\ StartupDone
  /\ FfmpegAtRest
  /\ UsersAtRest
  /\ SanitizeAtRest
  /\ filename_format \in FilenameFormats
  /\ stream_title \in StreamTitles
  /\ filename = [formed |-> FALSE, text |-> << >>]

\* lines 280-290: start_recording forms the file name
FormFilename ==
  /\ ~filename.formed
  /\ filename' =
       [formed |-> TRUE,
        text |-> format_filename(filename_format, TimestampStr, Username, stream_title)]
  /\ UNCHANGED <<filename_format, stream_title, ffmpegVars, usersVars, sanitizeVars,
                 isLiveVars, resolveVars, startupVars, loopVars>>

NextFilename == FormFilename

SpecFilename == InitFilename /\ [][NextFilename]_vars

\* ------------------------------------------------------------------ startup authentication
\* lines 441-451: nothing has been tried; config.ini and credentials.json hold
\* any kind of credentials, and ffmpeg is installed or not
InitStartup ==
  /\ InitRecorder
  /\ stream_quality_config = DEFAULT_STREAM_QUALITY
  /\ post_processing_command = << >>
  /\ pc = "auth_config"
  /\ access_token = None
  /\ token_requests = 0
  /\ conf_credentials \in CredentialStates
  /\ loaded_credentials \in CredentialStates
  /\ credential_attempts = 0
  /\ access_token_valid = FALSE
  /\ prompts_offered = 0
  /\ token_exchange = [credentials |-> "absent", answer |-> "none"]
  /\ sources_tried = << >>
  /\ client_id = "none"
  /\ credentials_saved = "none"
  /\ response = NoResponse
  /\ live_result = Pending
  /\ streams = [raised |-> "none", variants |-> << >>]
  /\ stream_url = "pending"
  /\ ffmpeg_sources \in {FfmpegOnPath, FfmpegNowhere}
  /\ ffmpeg_path = [source |-> "pending", file |-> "none"]
  /\ UsersAtRest
  /\ SanitizeAtRest
  /\ FilenameAtRest

\* lines 453-461: the credentials of config.ini are tried, if there are any
TryConfig ==
  /\ pc = "auth_config"
  /\ IF conf_credentials # "absent"
       THEN \E answer \in TokenAnswers :
              LET token == get_access_token(conf_credentials, answer)
              IN /\ access_token' = token
                 /\ token_requests' = token_requests + 1
                 /\ access_token_valid' = (token # None)
                 /\ token_exchange' =
                      [credentials |-> conf_credentials, answer |-> answer]
                 /\ sources_tried' = Append(sources_tried, "config")
                 /\ client_id' = IF token # None THEN "config" ELSE client_id
       ELSE UNCHANGED <<access_token, token_requests, access_token_valid,
                        token_exchange, sources_tried, client_id>>
  /\ pc' = "auth_legacy"
  /\ UNCHANGED <<conf_credentials, loaded_credentials, credential_attempts,
                 prompts_offered, credentials_saved, isLiveVars, resolveVars, pureVars, recorderVars>>

\* lines 463-473: the credentials of credentials.json are tried, if there are any
\* and no token is held; a failure counts as an attempt only without config.ini
TryLegacy ==
  /\ pc = "auth_legacy"
  /\ IF LegacyTried(access_token_valid, loaded_credentials)
       THEN \E answer \in TokenAnswers :
              LET token == get_access_token(loaded_credentials, answer)
              IN /\ access_token' = token
                 /\ token_requests' = token_requests + 1
                 /\ access_token_valid' = (token # None)
                 /\ token_exchange' =
                      [credentials |-> loaded_credentials, answer |-> answer]
                 /\ sources_tried' = Append(sources_tried, "legacy")
                 /\ client_id' = IF token # None THEN "legacy" ELSE client_id
                 /\ credential_attempts' =
                      IF token = None /\ conf_credentials = "absent"
                        THEN CountAttempt(credential_attempts)
                        ELSE credential_attempts
       ELSE UNCHANGED <<access_token, token_requests, access_token_valid,
                        credential_attempts, token_exchange, sources_tried, client_id>>
  /\ pc' = "auth_prompt"
  /\ UNCHANGED <<conf_credentials, loaded_credentials, prompts_offered,
                 credentials_saved, isLiveVars,
                 resolveVars, pureVars, recorderVars>>

\* line 475: a token is held and the while loop is left
PromptLoopDone ==
  /\ pc = "auth_prompt"
  /\ access_token_valid
  /\ pc' = "auth_check"
  /\ UNCHANGED <<access_token, token_requests, startupVars, isLiveVars, resolveVars,
                 pureVars, recorderVars>>

\* lines 476-478: the attempts are used up and sys.exit(1) is called
AttemptsExhausted ==
  /\ pc = "auth_prompt"
  /\ ~access_token_valid
  /\ credential_attempts >= MAX_CREDENTIAL_ATTEMPTS
  /\ pc' = "exit"
  /\ UNCHANGED <<access_token, token_requests, startupVars, isLiveVars, resolveVars,
                 pureVars, recorderVars>>

\* lines 479-494: the prompt is shown and what is typed is tried; an EOFError of
\* input() is not caught and ends the program
PromptCredentials ==
  /\ pc = "auth_prompt"
  /\ ~access_token_valid
  /\ credential_attempts < MAX_CREDENTIAL_ATTEMPTS
  /\ prompts_offered' = prompts_offered + 1
  /\ \E entry \in PromptEntries, answer \in TokenAnswers, saved \in SaveOutcomes :
       CASE entry = "eof" ->
              /\ pc' = "exit"
              /\ UNCHANGED <<access_token, token_requests, access_token_valid,
                             credential_attempts, token_exchange, sources_tried,
                             client_id, credentials_saved>>
         [] entry = "empty" ->
              /\ credential_attempts' = CountAttempt(credential_attempts)
              /\ UNCHANGED <<pc, access_token, token_requests, access_token_valid,
                             token_exchange, sources_tried, client_id,
                             credentials_saved>>
         [] OTHER ->
              LET token == get_access_token(entry, answer)
              IN /\ access_token' = token
                 /\ token_requests' = token_requests + 1
                 /\ access_token_valid' = (token # None)
                 /\ token_exchange' = [credentials |-> entry, answer |-> answer]
                 /\ sources_tried' = Append(sources_tried, "prompt")
                 /\ client_id' = IF token # None THEN "prompt" ELSE client_id
                 /\ credentials_saved' =
                      IF token # None /\ saved = "written" THEN entry
                      ELSE credentials_saved
                 /\ credential_attempts' =
                      IF token = None THEN CountAttempt(credential_attempts)
                      ELSE credential_attempts
                 /\ UNCHANGED pc
  /\ UNCHANGED <<conf_credentials, loaded_credentials, isLiveVars, resolveVars,
                 pureVars, recorderVars>>

\* lines 496-499: without a token the program exits
CheckToken ==
  /\ pc = "auth_check"
  /\ pc' = IF access_token = None THEN "exit" ELSE "load_users"
  /\ UNCHANGED <<access_token, token_requests, startupVars, isLiveVars, resolveVars,
                 pureVars, recorderVars>>

\* lines 502-530: the users are read, and the loop is entered unless none is found
EnterLoop ==
  /\ pc = "load_users"
  /\ \E users_found \in BOOLEAN : pc' = IF users_found THEN "check" ELSE "exit"
  /\ UNCHANGED <<access_token, token_requests, startupVars, isLiveVars, resolveVars,
                 pureVars, recorderVars>>

NextStartup ==
  \/ TryConfig
  \/ TryLegacy
  \/ PromptLoopDone
  \/ AttemptsExhausted
  \/ PromptCredentials
  \/ CheckToken
  \/ EnterLoop

\* main() is sequential: each step is taken once the request or the prompt it
\* waits for has been answered
SpecStartup == InitStartup /\ [][NextStartup]_vars /\ WF_vars(NextStartup)

\* ------------------------------------------------------------------ claims
\* a post-processing command is configured: the template is not all whitespace
PostProcessingConfigured ==
  \E i \in 1..Len(post_processing_command) : post_processing_command[i] # Blank

\* the users whose status check of this cycle returned the given live_status
Classified(status) == {u \in UserSet : live_status[u] = status}

\* the capture processes of user u that were started and have not been through a stop
Capturing(u) == {p \in 1..Len(procs) : procs[p].username = u /\ procs[p].stop = "none"}

\* C1: every user has at most one capture process that was started and not yet
\* stopped, and at most one entry in the active-recording map, however many
\* cycles report the user live.
C1_AtMostOneCapture ==
  /\ \A u \in UserSet : Cardinality(Capturing(u)) <= 1
  /\ Cardinality(KeySet(processes)) = Len(processes)

\* a user recorded since an earlier cycle is reported live again and keeps its process
C1_Witness ==
  /\ pc = "sleep"
  /\ cycle >= 2
  /\ \E u \in Classified("True") :
       /\ u \in KeySet(cycle_start_processes)
       /\ u \in KeySet(processes)
       /\ PidOf(processes, u) = PidOf(cycle_start_processes, u)
       /\ Capturing(u) = {PidOf(processes, u)}

\* C2: a recorded user whose status check is a transient error (live_status None)
\* is not stopped in that cycle and is still in the map at the end of the cycle.
C2_TransientErrorKeepsRecording ==
  pc = "sleep" =>
    \A u \in KeySet(cycle_start_processes) \cap Classified("None") :
      /\ u \in KeySet(processes)
      /\ procs[PidOf(cycle_start_processes, u)].stop = "none"

\* C3: a recorded user whose status check is an auth error (AUTH_FAILURE) is
\* skipped: its process is not stopped and it is still in the map at the end of
\* the cycle.
C3_AuthErrorKeepsRecording ==
  pc = "sleep" =>
    \A u \in KeySet(cycle_start_processes) \cap Classified("AUTH_FAILURE") :
      /\ u \in KeySet(processes)
      /\ PidOf(processes, u) = PidOf(cycle_start_processes, u)
      /\ procs[PidOf(cycle_start_processes, u)].stop = "none"

\* C4: a user that is in the map when a cycle begins and is offline in that cycle
\* has, at the end of the cycle, been through stop_recording, left the map and,
\* when a post-processing command is configured, had the command run with its
\* output path and username.
C4_OfflineStoppedInCycle ==
  pc = "sleep" =>
    \A u \in KeySet(cycle_start_processes) \cap Classified("False") :
      LET p == PidOf(cycle_start_processes, u)
      IN /\ u \notin KeySet(processes)
         /\ procs[p].stop = "stopped"
         /\ PostProcessingConfigured =>
              [username |-> u, filepath |-> procs[p].output_path, state |-> "ended"]
                \in post_runs

\* a recorded user went offline, with a post-processing command configured
C4_Witness ==
  /\ pc = "sleep"
  /\ PostProcessingConfigured
  /\ \E u \in KeySet(cycle_start_processes) \cap Classified("False") :
       procs[PidOf(cycle_start_processes, u)].stop = "stopped"

\* every status of the cycle is Live or Offline and no start of the cycle failed
CleanCycle ==
  /\ \A u \in UserSet : live_status[u] \in {"True", "False"}
  /\ ~start_failed

\* C5: at the end of a cycle whose statuses are all Live or Offline and whose
\* starts all succeed, the map holds exactly the users live in that cycle, and a
\* user recorded before and still live keeps the same, untouched process.
C5_MapEqualsLiveSet ==
  (pc = "sleep" /\ CleanCycle) =>
    /\ KeySet(processes) = Classified("True")
    /\ \A u \in KeySet(cycle_start_processes) \cap Classified("True") :
         /\ PidOf(processes, u) = PidOf(cycle_start_processes, u)
         /\ procs[PidOf(processes, u)].stop = "none"

\* one user is still live and keeps its recording while another is newly started
C5_Witness ==
  /\ pc = "sleep"
  /\ CleanCycle
  /\ \E u \in KeySet(cycle_start_processes) \cap Classified("True") :
       PidOf(processes, u) = PidOf(cycle_start_processes, u)
  /\ \E v \in Classified("True") \ KeySet(cycle_start_processes) :
       procs[PidOf(processes, v)].output_path[2] = cycle

\* C6: once is_live has returned AUTH_FAILURE for the token in use, no later
\* is_live call is made with that token.
C6_NoCheckWithFailedToken == ~stale_check

\* C7: when a status check of a cycle has returned AUTH_FAILURE, get_access_token
\* has been called again by the time the status checks of the next cycle begin.
C7_ReacquireBeforeNextCycle ==
  (pc = "check" /\ idx = 1) => token_requests > auth_failure_requests

\* C8: when the program has exited after an interrupt or an error in the loop,
\* every capture process that was started has been through a stop.
C8_NoOrphanAtExit ==
  (pc = "done" /\ exit_cause \in {"interrupt", "error"}) =>
    \A p \in 1..Len(procs) : procs[p].stop # "none"

\* C9: when the program has exited with a post-processing command configured,
\* the command has been run for every recording that was in the map when the
\* shutdown began.
C9_PostProcessOnShutdown ==
  (pc = "done" /\ exit_cause \in {"interrupt", "error"} /\ PostProcessingConfigured) =>
    \A i \in 1..Len(shutdown_processes) :
      \E r \in post_runs :
        /\ r.username = shutdown_processes[i].username
        /\ r.filepath = procs[shutdown_processes[i].pid].output_path

\* a stop has sent its signal and not returned, or a post-processing command runs
StopOrPostInProgress ==
  \/ \E p \in 1..Len(procs) : procs[p].stop = "in_progress"
  \/ \E r \in post_runs : r.state = "running"

\* C10: while the stop or the post-processing of one user is in progress, the poll
\* loop is not held up waiting for it.
C10_PollNotBlocked ==
  (~shutting_down /\ StopOrPostInProgress) =>
    pc \notin {"stop_communicate", "stop_kill", "stop_reap", "post_wait"}

\* ------------------------------------------------------------------ claims on stop_recording
\* the stop_recording call in hand has returned
StopReturned == stop_outcome # "none"

\* the forced kill was sent by the stop_recording call in hand
KillSent == \E i \in 1..Len(signals_sent) : signals_sent[i] = "SIGKILL"

\* C11 as stated: in a stop that has returned, a forced kill was sent only after
\* the graceful signal, only after the 10 seconds of grace ran out, and was
\* followed by the final wait; a process that exited within the grace period
\* was sent the graceful signal alone.
C11_KillOnlyAfterGraceThenReap ==
  StopReturned =>
    /\ KillSent => (signals_sent = <<"SIGTERM", "SIGKILL">> /\ stop_outcome = "forced")
    /\ stop_outcome = "graceful" => signals_sent = <<"SIGTERM">>

\* C11 amended: terminate() is the first signalling call and the kill is sent at
\* most once; in a stop that returns without an exception reaching the handlers
\* of lines 355-364 the kill is sent only after the graceful signal and the
\* expired grace period and is followed by the final wait, and a process that
\* exited within the grace period is sent the graceful signal alone; any other
\* kill is the one of line 362, sent after an exception with no wait after it.
C11_KillAfterGraceUnlessHandler ==
  /\ signals_sent \in {<< >>, <<"SIGTERM">>, <<"SIGKILL">>, <<"SIGTERM", "SIGKILL">>}
  /\ pc = "stop_communicate" => signals_sent = <<"SIGTERM">>
  /\ pc = "stop_reap" => signals_sent = <<"SIGTERM", "SIGKILL">>
  /\ StopReturned =>
       /\ stop_outcome = "forced" <=>
            (signals_sent = <<"SIGTERM", "SIGKILL">> /\ stop_outcome # "error")
       /\ stop_outcome = "forced" => ~procs[process_info_to_stop].alive
       /\ stop_outcome = "graceful" => signals_sent = <<"SIGTERM">>
       /\ signals_sent = <<"SIGKILL">> => stop_outcome = "error"

\* a process ignored the graceful signal, was killed after the timeout and reaped
C11_Witness ==
  /\ stop_outcome = "forced"
  /\ state_at_stop = "running"
  /\ signals_sent = <<"SIGTERM", "SIGKILL">>
  /\ procs[process_info_to_stop].stop = "stopped"

\* C12: when a stop_recording call on a started capture process has returned,
\* the process has exited, whatever was raised while signalling or waiting.
C12_StopReturnsProcessExited ==
  (StopReturned /\ process_info_to_stop # 0) => ~procs[process_info_to_stop].alive

\* C13: a stop_recording call on a process that had exited on its own before the
\* call sends no forced kill and ends with the outcome "already exited", never
\* with that of a graceful stop or of an error.
C13_AlreadyExitedReported ==
  (StopReturned /\ state_at_stop = "exited") =>
    (~KillSent /\ stop_outcome = "already_exited")

OfferedUrls == {UrlOf(q) : q \in Labels(streams.variants)}

\* C14: for every dict of quality variants and every configured quality,
\* get_stream_url returns the URL of the configured quality when it is on offer,
\* else the URL of 'best' when that is on offer, else the URL of one of the
\* variants, and returns None only when the dict is empty.
C14_PreferredThenBestThenAny ==
  (stream_url # "pending" /\ streams.raised = "none") =>
    LET offered == Labels(streams.variants)
    IN /\ stream_quality_config \in offered => stream_url = UrlOf(stream_quality_config)
       /\ (stream_quality_config \notin offered /\ "best" \in offered) =>
            stream_url = UrlOf("best")
       /\ offered # {} => stream_url \in OfferedUrls
       /\ stream_url = None <=> offered = {}

\* configured "720p", on offer "480p" and "best": the URL of "best" is returned
C14_Witness ==
  /\ stream_quality_config = "720p"
  /\ streams.raised = "none"
  /\ streams.variants = <<"480p", "best">>
  /\ stream_url = UrlOf("best")

\* C15: when streamlink.streams raises inside a start_recording call, no
\* exception reaches main(): the call returns None, the active-recording map, the
\* capture processes and the other users of the cycle are left as they were, and
\* the loop goes on with the next user to start.
C15_ResolutionErrorContained ==
  [][/\ (start_error = "none" /\ start_error' = "resolution_error") =>
          /\ pc' = "start_none"
          /\ recording_info' = 0
          /\ UNCHANGED <<processes, procs, exit_cause, shutting_down,
                         users_to_start_recording, users_to_stop_recording>>
     /\ (start_error = "resolution_error" /\ start_error' = "none" /\ pc' # "finally") =>
          /\ pc' = "start_loop"
          /\ users_to_start_recording' = Tail(users_to_start_recording)
          /\ UNCHANGED <<processes, procs, exit_cause, shutting_down,
                         users_to_stop_recording>>]_vars

\* the resolution raised for the first of two users to start, while its caller
\* still has the second to start
C15_Witness ==
  /\ pc = "start_none"
  /\ start_error = "resolution_error"
  /\ Len(users_to_start_recording) = 2
  /\ exit_cause = "none"

\* ------------------------------------------------------------------ claims on post-processing
\* C17: a post-processing command that exits non-zero, times out or cannot be
\* launched leaves the loop running and the active-recording map as it was: the
\* step that ends it goes back to the stop loop with the users still to stop.
C17_PostFailureNotFatal ==
  [][(/\ pc \in {"post_process", "post_wait"}
      /\ completed_process' \in {"nonzero", "timeout", "launch_error"}) =>
       /\ pc' = "stop_loop"
       /\ UNCHANGED <<processes, procs, users_to_stop_recording, cycle, exit_cause,
                      shutting_down>>]_vars

\* the command of the first of two users to stop timed out; the second is next
C17_Witness ==
  /\ pc = "stop_loop"
  /\ completed_process = "timeout"
  /\ users_to_stop_recording # << >>
  /\ Head(users_to_stop_recording) \in KeySet(processes)
  /\ exit_cause = "none"

\* the configured template is empty or holds whitespace only
BlankTemplate ==
  \A i \in 1..Len(post_processing_command) : post_processing_command[i] = Blank

\* C18: with an empty or whitespace-only command template no post-processing
\* command is ever run, and a recorded user seen offline has still been through
\* stop_recording and has left the map by the end of the cycle.
C18_BlankTemplateRunsNothing ==
  BlankTemplate =>
    /\ post_runs = {}
    /\ pc # "post_wait"
    /\ pc = "sleep" =>
         \A u \in KeySet(cycle_start_processes) \cap Classified("False") :
           /\ u \notin KeySet(processes)
           /\ procs[PidOf(cycle_start_processes, u)].stop = "stopped"

\* with a whitespace-only template a recorded user went offline and was stopped
C18_Witness ==
  /\ BlankTemplate
  /\ post_processing_command # << >>
  /\ pc = "sleep"
  /\ \E u \in KeySet(cycle_start_processes) \cap Classified("False") :
       /\ u \notin KeySet(processes)
       /\ procs[PidOf(cycle_start_processes, u)].stop = "stopped"

\* ------------------------------------------------------------------ claims on error containment
\* C19: no error that arises while one user is handled (status check, stream
\* resolution, creation of the output directory, launch, stop, post-processing)
\* ends the poll loop: main() never leaves the loop through an exception.
C19_PerUserErrorsContained == exit_cause # "error"

\* ------------------------------------------------------------------ claims on the startup
\* the startup has ended: sys.exit(1) was called or the poll loop is entered
StartupEnded == pc \in {"exit", "check"}

\* C20: the startup authentication ends, in an exit or in the poll loop; the
\* prompt is shown at most MAX_CREDENTIAL_ATTEMPTS times; a prompt answered with
\* an empty entry or with credentials that yield no token adds one to
\* credential_attempts; with the attempts used up the next step is the exit; and
\* the users are loaded and the loop entered only with a token held, obtained
\* from credentials that Twitch accepts.
C20_StartupAuthBounded ==
  /\ [](prompts_offered <= MAX_CREDENTIAL_ATTEMPTS)
  /\ [](pc \in {"load_users", "check"} =>
          /\ access_token # None
          /\ access_token_valid
          /\ \/ conf_credentials = "valid"
             \/ loaded_credentials = "valid"
             \/ prompts_offered > 0)
  /\ [][(/\ prompts_offered' = prompts_offered + 1
         /\ access_token' = None
         /\ pc' # "exit") =>
          credential_attempts' = credential_attempts + 1]_vars
  /\ [][(/\ pc = "auth_prompt"
         /\ ~access_token_valid
         /\ credential_attempts >= MAX_CREDENTIAL_ATTEMPTS) =>
          pc' = "exit"]_vars
  /\ <>StartupEnded

\* with no stored credentials the prompt was shown three times, answered by an
\* empty entry or by rejected credentials each time, and the program has exited
C20_Witness ==
  /\ pc = "exit"
  /\ conf_credentials = "absent"
  /\ loaded_credentials = "absent"
  /\ prompts_offered = MAX_CREDENTIAL_ATTEMPTS
  /\ credential_attempts = MAX_CREDENTIAL_ATTEMPTS
  /\ ~access_token_valid
  /\ access_token = None

\* C26: get_ffmpeg_path takes the configured path if it yields ffmpeg, else
\* FFMPEG_PATH if it yields ffmpeg, else what the system PATH holds, whatever
\* the later sources are; the path returned names an existing file, and None
\* is returned only when the three sources all fail.  A path yields ffmpeg
\* if it is a file, or a directory holding one of the executable names looked
\* for in it (lines 72-79 for the configured one, lines 90-94 for FFMPEG_PATH).
C26_FfmpegPrecedence ==
  LET s == ffmpeg_sources
      Yields(path, names) ==
        \/ path.kind = "file"
        \/ path.kind = "dir" /\ path.entries \cap names # {}
      NamesExistingFile(path) ==
        \/ path.kind = "file" /\ ffmpeg_path.file = "self"
        \/ path.kind = "dir" /\ ffmpeg_path.file \in path.entries
      config_names == IF s.os_name = "nt" THEN {"ffmpeg.exe", "ffmpeg"} ELSE {"ffmpeg"}
      env_names == IF s.os_name = "nt" THEN {"ffmpeg.exe"} ELSE {"ffmpeg"}
      config_ok == Yields(s.config, config_names)
      env_ok == Yields(s.env, env_names)
  IN ffmpeg_path.source # "pending" =>
       /\ ffmpeg_path.source = "config" <=> config_ok
       /\ ffmpeg_path.source = "env" <=> ~config_ok /\ env_ok
       /\ ffmpeg_path.source = "path" <=> ~config_ok /\ ~env_ok /\ s.which
       /\ ffmpeg_path = NotFound <=> ~config_ok /\ ~env_ok /\ ~s.which
       /\ ffmpeg_path.source = "config" => NamesExistingFile(s.config)
       /\ ffmpeg_path.source = "env" => NamesExistingFile(s.env)

\* FFMPEG_PATH is taken although ffmpeg is on the PATH too, after a configured
\* path that does not exist
C26_Witness ==
  /\ ffmpeg_path.source = "env"
  /\ ffmpeg_sources.which
  /\ ffmpeg_sources.config.kind = "missing"
  /\ ffmpeg_sources.env.kind = "dir"

\* C21: the poll loop is entered only if a capture binary can be located; with
\* no ffmpeg in config.ini, FFMPEG_PATH or the PATH the program ends at startup.
C21_NoBinaryEndsStartup ==
  pc = "check" => get_ffmpeg_path(ffmpeg_sources) # NotFound

\* C22: a call of get_access_token yields a token exactly when the exchange
\* is answered with success for accepted credentials and a body holding the
\* token; it never raises; and a network-level failure is told apart from a
\* rejection, so that main() does not count an unreachable service as an
\* attempt with wrong credentials.
C22_NetworkFailureNotWrongCredentials ==
  [][token_requests' = token_requests + 1 =>
       /\ access_token' # None <=>
            token_exchange' = [credentials |-> "valid", answer |-> "reply"]
       /\ token_exchange'.answer = "network_error" =>
            credential_attempts' = credential_attempts]_vars

C24_SanitizedFilename ==
  LET t == sanitized.text
      given == filename_component
      Clean(x) ==
        /\ Len(x) <= FILENAME_LIMIT
        /\ \A i \in 1..Len(x) : x[i] \notin ForbiddenChars
        /\ \A i \in 1..(Len(x) - 1) : ~(x[i] = "_" /\ x[i + 1] = "_")
        /\ x # << >> => {x[1], x[Len(x)]} \cap {"_", Blank} = {}
  IN sanitized.returned =>
       /\ Clean(t)
       /\ (\A i \in 1..Len(given) : given[i] \in {"_", Blank}) => t = << >>
       /\ Clean(given) => t = given

\* C25: with the title placeholder in the format and no usable title (none
\* given, or one that sanitizes to the empty string) the file name is the one
\* formed without a title, the placeholder gone together with the underscore
\* before it: "<timestamp>_<username>.mp4" for the default format; a format
\* without the placeholder gives the same name whatever the title.
C25_NoTitleSameFilename ==
  LET has_placeholder == \E i \in 1..Len(filename_format) : filename_format[i] = "{title}"
      no_usable_title ==
        ~stream_title.present \/ sanitize_filename(stream_title.text) = << >>
      untitled ==
        format_filename(filename_format, TimestampStr, Username,
                        [present |-> FALSE, text |-> << >>])
  IN filename.formed =>
       /\ has_placeholder /\ no_usable_title => filename.text = untitled
       /\ filename_format = DEFAULT_FILENAME_FORMAT /\ no_usable_title =>
            filename.text = TimestampStr \o <<"_">> \o Username \o <<".mp4">>
       /\ ~has_placeholder => filename.text = untitled

\* C27: stop_recording is never called for a capture process it has been
\* called for before, and when the program has exited after an interrupt or
\* an error it has been called for every capture process started.
C27_StopExactlyOnce ==
  /\ pc = "stop_terminate" => procs[process_info_to_stop].stop = "none"
  /\ (pc = "done" /\ exit_cause \in {"interrupt", "error"}) =>
       \A p \in 1..Len(procs) : procs[p].stop \in {"in_progress", "stopped"}

\* C28: at every point a user is a key of processes exactly if a capture
\* process started for the user has been returned by start_recording and no
\* stop_recording call for it has returned.
C28_MapIffStartedNotStopped ==
  \A u \in UserSet :
    u \in KeySet(processes) <=>
      \E p \in 1..Len(procs) :
        /\ procs[p].username = u
        /\ p # recording_info
        /\ procs[p].stop # "stopped"

\* C30: while the statuses of a cycle are collected processes is as it was
\* when the cycle began; the start and stop loops run only with the status of
\* every user collected; and the users they go through are those the cycle saw
\* live without an entry, and those with an entry the cycle did not see live,
\* in processes as it was when the cycle began.
C30_DecisionsOnCompleteSnapshot ==
  /\ pc \in {"check", "decide"} => processes = cycle_start_processes
  /\ (exit_cause = "none" /\ pc # "check") =>
       \A u \in UserSet : live_status[u] # "unchecked"
  /\ \A i \in 1..Len(users_to_start_recording) :
       /\ live_status[users_to_start_recording[i]] = "True"
       /\ users_to_start_recording[i] \notin KeySet(cycle_start_processes)
  /\ \A i \in 1..Len(users_to_stop_recording) :
       /\ live_status[users_to_stop_recording[i]] # "True"
       /\ users_to_stop_recording[i] \in KeySet(cycle_start_processes)

\* in a later cycle both users were checked, and then one recording was
\* stopped and another started
C30_Witness ==
  /\ pc = "sleep"
  /\ cycle >= 2
  /\ \A u \in UserSet : live_status[u] # "unchecked"
  /\ KeySet(cycle_start_processes) # {}
  /\ KeySet(processes) # {}
  /\ KeySet(processes) \cap KeySet(cycle_start_processes) = {}

\* C29: a start that fails adds no entry to processes, and nothing is kept of
\* the failure: when the start loop of a cycle begins, every user the cycle
\* saw live and without an entry is in the list of users to start, whether an
\* earlier start for the user failed or not; a start is attempted for each of
\* them, so a live user without an entry at the end of the cycle had a start
\* that failed in this cycle.
C29_FailedStartRetried ==
  LET Listed(u) ==
        \E i \in 1..Len(users_to_start_recording) : users_to_start_recording[i] = u
      LiveWithoutEntry(u) == live_status[u] = "True" /\ u \notin KeySet(processes)
  IN /\ pc = "start_none" =>
          /\ LiveWithoutEntry(Head(users_to_start_recording))
          /\ recording_info = 0
     /\ (pc = "start_loop" /\ ~start_failed /\ processes = cycle_start_processes) =>
          \A u \in UserSet : LiveWithoutEntry(u) => Listed(u)
     /\ (pc = "sleep" /\ exit_cause = "none") =>
          \A u \in UserSet : LiveWithoutEntry(u) => start_failed

\* a start is attempted again, with success, for the user whose start failed
\* in the cycle before
C29_Witness ==
  /\ pc = "start_store"
  /\ cycle >= 2
  /\ ~start_failed
  /\ Head(users_to_start_recording) = failed_start_user
  /\ procs[recording_info].username = failed_start_user

\* ------------------------------------------------------------------ claims on the order of stop and post-processing
\* C31: the post-processing command of a recording is launched only when the
\* stop of its capture process has returned and the process has exited, however
\* the stop went (graceful, forced, already exited, error while waiting).
C31_PostProcessAfterExit ==
  [][(PostProcess /\ Strip(post_processing_command) # << >>) =>
       /\ procs[process_info_to_stop].stop = "stopped"
       /\ ~procs[process_info_to_stop].alive]_vars

\* ------------------------------------------------------------------ claims on the decisions of a cycle
\* C32: the confirmed-live set a cycle decides on holds exactly the users
\* classified Live by the status checks of that cycle: a user seen live in an
\* earlier cycle and not in this one is not in it; every user chosen to start
\* was classified Live in this cycle and every user chosen to stop was not.
C32_DecisionsOnCurrentCycleOnly ==
  LET live_now == {u \in UserSet : live_status[u] = "True"}
  IN /\ LiveKeys(current_live_user_titles) = live_now
     /\ \A i \in 1..Len(users_to_start_recording) :
          users_to_start_recording[i] \in live_now
     /\ \A i \in 1..Len(users_to_stop_recording) :
          users_to_stop_recording[i] \notin live_now

\* C32 witness: a user recorded since an earlier cycle, where it was seen live,
\* gets AUTH_FAILURE or None in this cycle and is the first chosen to stop
C32_Witness ==
  /\ cycle > 1
  /\ pc = "start_loop"
  /\ users_to_stop_recording # << >>
  /\ LET u == Head(users_to_stop_recording)
     IN /\ u \in KeySet(cycle_start_processes)
        /\ live_status[u] \in {"AUTH_FAILURE", "None"}
        /\ current_live_user_titles[u] = Absent

\* C33: in every cycle the users chosen to start and the users chosen to stop
\* are tracked users and no user is in both lists; the stop loop never stops a
\* recording that was started in the same cycle, nor a recording of a user for
\* whom one was started in the same cycle.
C33_StartAndStopDisjoint ==
  LET to_start == {users_to_start_recording[i] : i \in 1..Len(users_to_start_recording)}
      to_stop == {users_to_stop_recording[i] : i \in 1..Len(users_to_stop_recording)}
      started_now == {p \in 1..Len(procs) : procs[p].output_path[2] = cycle}
  IN /\ to_start \cap to_stop = {}
     /\ to_start \cup to_stop \subseteq UserSet
     /\ \A p \in started_now : procs[p].username \notin to_stop
     /\ (~shutting_down /\ process_info_to_stop # 0) =>
          /\ process_info_to_stop \notin started_now
          /\ \A p \in started_now :
               procs[p].username # procs[process_info_to_stop].username

\* C33 witness: in one cycle a recording has been started for one user and the
\* stop loop is stopping the recording of another
C33_Witness ==
  /\ pc = "stop_terminate"
  /\ ~shutting_down
  /\ procs[process_info_to_stop].output_path[2] < cycle
  /\ \E p \in 1..Len(procs) :
       /\ procs[p].output_path[2] = cycle
       /\ procs[p].username \in KeySet(processes)

\* C34: a key leaves processes only in the stop loop, for the user at the head
\* of users_to_stop_recording, who was not classified Live in this cycle; the
\* exit of a capture process on its own changes nothing in processes; and a
\* capture process is launched for a user only when the user is not a key and
\* every earlier process of that user has been stopped by the loop, so that a
\* process that died while its user stayed Live is not replaced.
C34_EntryLeavesOnlyByStopDecision ==
  [][/\ \A u \in KeySet(processes) \ KeySet(processes') :
          /\ pc = "stop_loop"
          /\ pc' = "stop_terminate"
          /\ users_to_stop_recording # << >>
          /\ u = Head(users_to_stop_recording)
          /\ live_status[u] # "True"
     /\ (\E p \in 1..Len(procs) : procs[p].alive /\ ~procs'[p].alive /\ procs'[p].stop = "none")
          => processes' = processes
     /\ Len(procs') > Len(procs) =>
          LET u == procs'[Len(procs')].username
          IN /\ u \notin KeySet(processes)
             /\ \A p \in 1..Len(procs) :
                  procs[p].username = u => procs[p].stop = "stopped"]_vars

\* C34 witness: the capture process of a user has died on its own in an earlier
\* cycle, the user has been classified Live again, the cycle is complete, and
\* the entry is still there with no other process launched for the user
C34_Witness ==
  /\ pc = "sleep"
  /\ cycle > 1
  /\ \E i \in 1..Len(processes) :
       LET u == processes[i].username
           p == processes[i].pid
       IN /\ ~procs[p].alive
          /\ procs[p].stop = "none"
          /\ procs[p].output_path[2] < cycle
          /\ live_status[u] = "True"
          /\ \A q \in 1..Len(procs) : procs[q].username = u => q = p

\* ------------------------------------------------------------------ claims on the credential sources
\* the place of a source in the order of lines 453-494
SourceRank(source) ==
  CASE source = "config" -> 1 [] source = "legacy" -> 2 [] OTHER -> 3

\* get_access_token has been called for the source
Tried(source) == \E i \in 1..Len(sources_tried) : sources_tried[i] = source

\* the calls made so far are in the order config.ini, credentials.json, prompt,
\* each file tried at most once, only with a pair in it, and not passed over
SourcesInOrder ==
  /\ \A i, j \in 1..Len(sources_tried) :
       i < j =>
         (/\ SourceRank(sources_tried[i]) <= SourceRank(sources_tried[j])
          /\ (sources_tried[i] = sources_tried[j] => sources_tried[i] = "prompt"))
  /\ Tried("config") => conf_credentials # "absent"
  /\ Tried("legacy") => loaded_credentials # "absent"
  /\ (pc # "auth_config" /\ conf_credentials # "absent") =>
       sources_tried[1] = "config"
  /\ (pc \notin {"auth_config", "auth_legacy"} /\ client_id # "config"
        /\ loaded_credentials # "absent") => Tried("legacy")

\* past the authentication client_id is of the source tried last, whose pair
\* Twitch accepted
LoopWithPairOfToken ==
  pc \in {"load_users", "check"} =>
    /\ access_token # None
    /\ client_id = sources_tried[Len(sources_tried)]
    /\ token_exchange = [credentials |-> "valid", answer |-> "reply"]
    /\ client_id = "config" => conf_credentials = "valid"
    /\ client_id = "legacy" => loaded_credentials = "valid"

\* what credentials.json was given is the accepted pair typed at the prompt
SavedIsValidated ==
  credentials_saved # "none" =>
    /\ credentials_saved = "valid"
    /\ client_id = "prompt"
    /\ access_token_valid

\* C35: the startup calls get_access_token for config.ini first, then for
\* credentials.json, then for what is typed at the prompt, each of the two
\* files at most once and only if it holds a pair; once a call has returned a
\* token no further call is made and the pair kept as client_id is not
\* replaced; the loop is entered with the client id of the source tried last,
\* whose pair Twitch accepted; and save_credentials writes only a pair typed at
\* the prompt that has yielded the token.
C35_CredentialSourcesInOrder ==
  /\ []SourcesInOrder
  /\ [][access_token_valid =>
          /\ sources_tried' = sources_tried
          /\ client_id' = client_id
          /\ access_token' = access_token]_vars
  /\ []LoopWithPairOfToken
  /\ []SavedIsValidated
  /\ [][credentials_saved' # credentials_saved =>
          /\ ~access_token_valid /\ access_token_valid'
          /\ sources_tried' = Append(sources_tried, "prompt")]_vars

\* C35 witness: both files held a pair and neither call returned a token, the
\* first entry at the prompt failed as well, the second was accepted and saved,
\* and the loop is entered with it
C35_Witness ==
  /\ pc = "check"
  /\ sources_tried = <<"config", "legacy", "prompt", "prompt">>
  /\ client_id = "prompt"
  /\ credentials_saved = "valid"
  /\ access_token # None

\* ------------------------------------------------------------------ claims on sanitize_filename applied twice
\* C36: sanitize_filename applied to its own result gives that result again,
\* and the result neither begins nor ends with an underscore, also for a
\* component longer than FILENAME_LIMIT.
C36_SanitizeIdempotent ==
  sanitized.returned =>
    /\ sanitize_filename(sanitized.text) = sanitized.text
    /\ sanitized.text # << >> =>
         /\ sanitized.text[1] # "_"
         /\ sanitized.text[Len(sanitized.text)] # "_"

====
